---- MODULE Spec2Model ----
(***************************************************************************)
(* comtrya: action resolution (ConditionalVariantAction::plan), the        *)
(* Actions dispatch union and its Display, the git Clone atom, and the     *)
(* step execution protocol.                                                *)
(***************************************************************************)
EXTENDS Naturals, Sequences, FiniteSets

VARIABLES
    \* ConditionalVariantAction::plan
    self,        \* the ConditionalVariantAction<T> being resolved
    context,     \* the Contexts handed to plan
    pc,          \* "ready" before the call of plan, "done" after it
    ret,         \* what plan returned: Result<Vec<Step>, anyhow::Error>
    planned,     \* payloads whose plan was invoked: 0 = self.action, i = variants[i].action
    evaluated,   \* conditions handed to the engine: 0 = self.condition, i = variants[i].condition
    \* Actions: deserialization and Display
    decl,        \* the action declaration of the manifest: its `action` and `where` fields
    parsed,      \* None, or Some(result of deserializing decl into Actions)
    shown,       \* None, or Some(text Display wrote for the parsed member)
    \* atoms::git::Clone
    fs,          \* the paths that exist on disk
    atom,        \* the Clone atom
    trail,       \* the calls of plan and execute made on atom so far, with what they saw
    \* execution of the planned steps
    steps,       \* the steps of the run, each a sequence of atoms
    cursor,      \* <<step, atom>>: the atom the executor is at
    phase,       \* "plan", "execute", "done" or "failed"
    calls        \* the calls the executor made on atoms so far

planVars == <<self, context, pc, ret, planned, evaluated>>
unionVars == <<decl, parsed, shown>>
cloneVars == <<fs, atom, trail>>
stepVars == <<steps, cursor, phase, calls>>
vars == <<planVars, unionVars, cloneVars, stepVars>>

----------------------------------------------------------------------------
(* Bounds *)

MaxVariants == 2
\* calls recorded on the Clone atom
MaxCalls == 3
\* atoms of a run, over all its steps
MaxAtoms == 3

----------------------------------------------------------------------------
(* Option<T>: None is the empty sequence, Some(x) is <<x>> *)

None == <<>>
Some(x) == <<x>>
Option(S) == {None} \cup {Some(x) : x \in S}
is_none(o) == o = None
unwrap(o) == o[1]

----------------------------------------------------------------------------
(* The expression engine, as far as `where` conditions use it.             *)

\* names a condition may refer to
VarNames == {"Debian"}

\* values a scope binds a name to: booleans, and a value that is no boolean
Dynamic == {[kind |-> "bool", val |-> "true"],
            [kind |-> "bool", val |-> "false"],
            [kind |-> "string", val |-> "Debian"]}

\* a context binds some of the names
Contexts == UNION {[D -> Dynamic] : D \in SUBSET VarNames}

\* condition texts: literals, a variable, a call of an undefined function
Conditions == {"true", "false", "Debian", "nope()"}

\* crate::contexts::to_rhai: the scope holds the context's bindings
to_rhai(ctx) == ctx

EvalOk(b) == [ok |-> TRUE, b |-> b]
EvalErr == [ok |-> FALSE, b |-> FALSE]

\* engine.eval_with_scope::<bool>(&mut scope, condition): Ok(bool), or Err for
\* an unbound variable, a value that is no bool, or an unknown function
\* (conditions are boolean expressions: they read the scope and leave it as
\* it was)
eval_with_scope(scope, condition) ==
    IF condition = "true" THEN EvalOk(TRUE)
    ELSE IF condition = "false" THEN EvalOk(FALSE)
    ELSE IF condition \in VarNames
    THEN IF condition \notin DOMAIN scope THEN EvalErr
         ELSE IF scope[condition].kind = "bool"
              THEN EvalOk(scope[condition].val = "true")
              ELSE EvalErr
    ELSE EvalErr

----------------------------------------------------------------------------
(* Payloads T: Action *)

\* "echo" and "halt" plan one step each, "boom" fails to plan
Payloads == {"echo", "halt", "boom"}

Ok(list) == [ok |-> TRUE, steps |-> list, err |-> ""]
Err(msg) == [ok |-> FALSE, steps |-> <<>>, err |-> msg]

\* T::plan(manifest, context) -> anyhow::Result<Vec<Step>>
T_plan(payload) ==
    IF payload = "boom" THEN Err("plan failed") ELSE Ok(<<payload>>)

----------------------------------------------------------------------------
(* ConditionalVariantAction<T> and Variant<T> *)

Variant == [action : Payloads, condition : Option(Conditions)]

SeqUpTo(S, n) == UNION {[1..k -> S] : k \in 0..n}

ConditionalVariantAction ==
    [action : Payloads, condition : Option(Conditions),
     variants : SeqUpTo(Variant, MaxVariants)]

\* variant_matches with `return true` for a variant without condition
variant_matches_none_selects(variant, scope) ==
    IF is_none(variant.condition) THEN TRUE
    ELSE LET condition == unwrap(variant.condition)
             r == eval_with_scope(scope, condition)
         IN IF r.ok THEN r.b ELSE FALSE

\* the closure handed to find: a variant without condition never matches, an
\* evaluation error is logged and counts as false
variant_matches(variant, scope) ==
    IF is_none(variant.condition) THEN FALSE
    ELSE LET condition == unwrap(variant.condition)
             r == eval_with_scope(scope, condition)
         IN IF r.ok THEN r.b ELSE FALSE

\* find written as a scan that keeps the last match (filter(..).last())
RECURSIVE find_last(_, _, _, _)
find_last(variants, scope, i, evals) ==
    IF i > Len(variants) THEN [variant |-> 0, evals |-> evals]
    ELSE LET evals2 == IF is_none(variants[i].condition)
                       THEN evals ELSE Append(evals, i)
             rest == find_last(variants, scope, i + 1, evals2)
         IN IF rest.variant = 0 /\ variant_matches(variants[i], scope)
            THEN [variant |-> i, evals |-> rest.evals]
            ELSE rest

\* self.variants.iter().find(closure): the first index the closure accepts
\* (0 when there is none), with the conditions evaluated on the way
RECURSIVE find(_, _, _, _)
find(variants, scope, i, evals) ==
    IF i > Len(variants) THEN [variant |-> 0, evals |-> evals]
    ELSE LET evals2 == IF is_none(variants[i].condition)
                       THEN evals ELSE Append(evals, i)
         IN IF variant_matches(variants[i], scope)
            THEN [variant |-> i, evals |-> evals2]
            ELSE find(variants, scope, i + 1, evals2)

\* top_level with the Err arm skipping the action instead of failing
top_level_error_skips(cva, r, evals) ==
    IF r.ok /\ r.b
    THEN [ret |-> T_plan(cva.action), planned |-> <<0>>, evaluated |-> evals]
    ELSE [ret |-> Ok(<<>>), planned |-> <<>>, evaluated |-> evals]

\* top_level with a single Ok(_) arm planning the default payload
top_level_false_plans(cva, r, evals) ==
    IF r.ok
    THEN [ret |-> T_plan(cva.action), planned |-> <<0>>, evaluated |-> evals]
    ELSE [ret |-> Err("Failed execution condition for action"),
          planned |-> <<>>, evaluated |-> evals]

\* the match on the top-level condition's value
top_level(cva, r, evals) ==
    IF r.ok /\ r.b
    THEN [ret |-> T_plan(cva.action), planned |-> <<0>>, evaluated |-> evals]
    ELSE IF r.ok
    THEN [ret |-> Ok(<<>>), planned |-> <<>>, evaluated |-> evals]
    ELSE [ret |-> Err("Failed execution condition for action"),
          planned |-> <<>>, evaluated |-> evals]

\* plan with a failing variant condition propagated like a failing top-level one
plan_variant_error_fatal(cva, ctx) ==
    LET scope == to_rhai(ctx)
        f == find(cva.variants, scope, 1, <<>>)
        failing == {i \in DOMAIN f.evals :
                       f.evals[i] # 0 /\
                       ~eval_with_scope(scope, unwrap(cva.variants[f.evals[i]].condition)).ok}
    IN IF failing # {}
       THEN [ret |-> Err("Failed execution condition for action"),
             planned |-> <<>>, evaluated |-> f.evals]
       ELSE IF f.variant # 0
       THEN [ret |-> T_plan(cva.variants[f.variant].action),
             planned |-> <<f.variant>>, evaluated |-> f.evals]
       ELSE IF is_none(cva.condition)
       THEN [ret |-> T_plan(cva.action), planned |-> <<0>>, evaluated |-> f.evals]
       ELSE top_level(cva, eval_with_scope(scope, unwrap(cva.condition)),
                      Append(f.evals, 0))

\* plan with declared variants short-circuiting the top-level condition
plan_variants_bypass_condition(cva, ctx) ==
    LET scope == to_rhai(ctx)
        f == find(cva.variants, scope, 1, <<>>)
    IN IF f.variant # 0
       THEN [ret |-> T_plan(cva.variants[f.variant].action),
             planned |-> <<f.variant>>, evaluated |-> f.evals]
       ELSE IF is_none(cva.condition) \/ cva.variants # <<>>
       THEN [ret |-> T_plan(cva.action), planned |-> <<0>>, evaluated |-> f.evals]
       ELSE top_level(cva, eval_with_scope(scope, unwrap(cva.condition)),
                      Append(f.evals, 0))

\* plan without the early return after a variant was planned: the steps of the
\* variant are followed by those of the default payload
plan_falls_through(cva, ctx) ==
    LET scope == to_rhai(ctx)
        f == find(cva.variants, scope, 1, <<>>)
        rest == IF is_none(cva.condition)
                THEN [ret |-> T_plan(cva.action), planned |-> <<0>>,
                      evaluated |-> f.evals]
                ELSE top_level(cva, eval_with_scope(scope, unwrap(cva.condition)),
                               Append(f.evals, 0))
    IN IF f.variant = 0 THEN rest
       ELSE LET first == T_plan(cva.variants[f.variant].action)
            IN [ret |-> IF first.ok /\ rest.ret.ok
                        THEN Ok(first.steps \o rest.ret.steps)
                        ELSE IF first.ok THEN rest.ret ELSE first,
                planned |-> <<f.variant>> \o rest.planned,
                evaluated |-> rest.evaluated]

\* ConditionalVariantAction::plan
ConditionalVariantAction_plan(cva, ctx) ==
    LET scope == to_rhai(ctx)
        f == find(cva.variants, scope, 1, <<>>)
    IN IF f.variant # 0
       THEN [ret |-> T_plan(cva.variants[f.variant].action),
             planned |-> <<f.variant>>, evaluated |-> f.evals]
       ELSE IF is_none(cva.condition)
       THEN [ret |-> T_plan(cva.action), planned |-> <<0>>, evaluated |-> f.evals]
       ELSE top_level(cva, eval_with_scope(scope, unwrap(cva.condition)),
                      Append(f.evals, 0))

----------------------------------------------------------------------------
(* Resolution of one action *)

\* the parts of the state a specification does not exercise
PlanIdle ==
    /\ self = [action |-> "echo", condition |-> None, variants |-> <<>>]
    /\ context = <<>>
    /\ pc = "ready"
    /\ ret = Ok(<<>>)
    /\ planned = <<>>
    /\ evaluated = <<>>

UnionIdle ==
    /\ decl = [action |-> "command.run", where |-> None]
    /\ parsed = None
    /\ shown = None

CloneIdle ==
    /\ fs = {}
    /\ atom = [repository |-> "", directory |-> "", reference |-> None]
    /\ trail = <<>>

StepIdle ==
    /\ steps = <<>>
    /\ cursor = <<1, 1>>
    /\ phase = "done"
    /\ calls = <<>>

Init ==
    /\ self \in ConditionalVariantAction
    /\ context \in Contexts
    /\ pc = "ready"
    /\ ret = Ok(<<>>)
    /\ planned = <<>>
    /\ evaluated = <<>>
    /\ UnionIdle /\ CloneIdle /\ StepIdle

Plan ==
    /\ pc = "ready"
    /\ LET r == ConditionalVariantAction_plan(self, context)
       IN /\ ret' = r.ret
          /\ planned' = r.planned
          /\ evaluated' = r.evaluated
    /\ pc' = "done"
    /\ UNCHANGED <<self, context, unionVars, cloneVars, stepVars>>

Next == Plan

Spec == Init /\ [][Next]_vars

----------------------------------------------------------------------------
(* Vocabulary of the properties of resolution *)

\* what the engine makes of an optional condition under the state's context
CondValue(o) ==
    IF is_none(o) THEN "none"
    ELSE LET r == eval_with_scope(to_rhai(context), unwrap(o))
         IN IF ~r.ok THEN "error" ELSE IF r.b THEN "true" ELSE "false"

\* the variants whose condition evaluates to true
TrueVariants == {i \in DOMAIN self.variants : CondValue(self.variants[i].condition) = "true"}

FirstTrueVariant == CHOOSE i \in TrueVariants : \A j \in TrueVariants : i <= j

WithCondition(cva, c) == [cva EXCEPT !.condition = c]
WithVariantCondition(cva, i, c) == [cva EXCEPT !.variants[i].condition = c]
WithVariants(cva, vs) == [cva EXCEPT !.variants = vs]

ConditionError == Err("Failed execution condition for action")

Elems(s) == {s[i] : i \in DOMAIN s}

----------------------------------------------------------------------------
(* C1: if some variant's condition evaluates to true, plan returns the plan  *)
(* of the payload of the first such variant in declaration order; the        *)
(* top-level condition is not evaluated, and the result is the same for      *)
(* every top-level condition (absent, true, false, failing).                 *)
C1_FirstTrueVariantWins ==
    (pc = "done" /\ TrueVariants # {}) =>
        /\ ret = T_plan(self.variants[FirstTrueVariant].action)
        /\ planned = <<FirstTrueVariant>>
        /\ 0 \notin Elems(evaluated)
        /\ \A c \in Option(Conditions) :
              LET r == ConditionalVariantAction_plan(WithCondition(self, c), context)
              IN r.ret = ret /\ r.planned = planned

\* two variants match, the second with another payload, under a failing
\* top-level condition
C1_Witness ==
    /\ pc = "done"
    /\ Len(self.variants) >= 2
    /\ {1, 2} \subseteq TrueVariants
    /\ self.variants[1].action # self.variants[2].action
    /\ CondValue(self.condition) = "error"
    /\ planned = <<1>>

(* C2: a variant whose condition fails to evaluate is treated as one whose   *)
(* condition is false: replacing the failing condition by any condition that *)
(* evaluates to false leaves the outcome of plan unchanged, and plan returns *)
(* the condition error only when the top-level condition fails.              *)
C2_VariantErrorIsFalse ==
    pc = "done" =>
        /\ \A i \in DOMAIN self.variants :
              CondValue(self.variants[i].condition) = "error" =>
                 \A c \in Conditions :
                    CondValue(Some(c)) = "false" =>
                       LET r == ConditionalVariantAction_plan(
                                    WithVariantCondition(self, i, Some(c)), context)
                       IN r.ret = ret /\ r.planned = planned
        /\ (planned = <<>> /\ ~ret.ok) => CondValue(self.condition) = "error"
        /\ \A i \in Elems(planned) :
              i # 0 => CondValue(self.variants[i].condition) # "error"

\* a failing first variant, a matching second one: the second is planned
C2_Witness ==
    /\ pc = "done"
    /\ Len(self.variants) >= 2
    /\ CondValue(self.variants[1].condition) = "error"
    /\ CondValue(self.variants[2].condition) = "true"
    /\ planned = <<2>>

(* C3: when no variant is selected and the top-level condition is present    *)
(* and fails to evaluate, plan returns an error: no steps, and no payload's  *)
(* plan is invoked.                                                          *)
C3_TopLevelErrorIsFatal ==
    (pc = "done" /\ TrueVariants = {} /\ CondValue(self.condition) = "error") =>
        /\ ret = ConditionError
        /\ ~ret.ok
        /\ ret.steps = <<>>
        /\ planned = <<>>

\* variants declared, none matching, a failing top-level condition
C3_Witness ==
    /\ pc = "done"
    /\ Len(self.variants) >= 1
    /\ TrueVariants = {}
    /\ CondValue(self.condition) = "error"
    /\ ~ret.ok

(* C4: when no variant is selected and the top-level condition is present    *)
(* and evaluates to false, plan returns Ok with an empty step list and no    *)
(* payload's plan is invoked.                                                *)
C4_TopLevelFalseIsEmpty ==
    (pc = "done" /\ TrueVariants = {} /\ CondValue(self.condition) = "false") =>
        /\ ret = Ok(<<>>)
        /\ planned = <<>>

\* a false top-level condition over a default payload that would plan a step
C4_Witness ==
    /\ pc = "done"
    /\ Len(self.variants) >= 1
    /\ TrueVariants = {}
    /\ CondValue(self.condition) = "false"
    /\ T_plan(self.action) # Ok(<<>>)
    /\ ret = Ok(<<>>)

(* C5: a variant without condition is never the selected one, wherever it    *)
(* stands in the list; an action whose variants all lack a condition         *)
(* resolves as the same action without variants.                             *)
C5_UnconditionalVariantNeverSelected ==
    pc = "done" =>
        /\ \A i \in Elems(planned) :
              i # 0 => ~is_none(self.variants[i].condition)
        /\ (\A i \in DOMAIN self.variants : is_none(self.variants[i].condition)) =>
              LET r == ConditionalVariantAction_plan(WithVariants(self, <<>>), context)
              IN r.ret = ret /\ r.planned = planned

\* a first variant without condition is passed over for a matching second one
C5_Witness ==
    /\ pc = "done"
    /\ Len(self.variants) >= 2
    /\ is_none(self.variants[1].condition)
    /\ CondValue(self.variants[2].condition) = "true"
    /\ planned = <<2>>

\* every variant lacks a condition and the default payload is planned
C5_WitnessAllUnconditional ==
    /\ pc = "done"
    /\ Len(self.variants) >= 2
    /\ \A i \in DOMAIN self.variants : is_none(self.variants[i].condition)
    /\ planned = <<0>>

(* C6: when no variant is selected, the default payload's plan is returned   *)
(* if and only if the top-level condition is absent or evaluates to true;    *)
(* declared variants do not bypass the top-level condition.                  *)
C6_TopLevelGatesDefault ==
    (pc = "done" /\ TrueVariants = {}) =>
        /\ (planned = <<0>>) <=> (CondValue(self.condition) \in {"none", "true"})
        /\ planned = <<0>> => ret = T_plan(self.action)
        /\ planned \in {<<>>, <<0>>}

\* variants are declared, none matches, and a false top-level condition keeps
\* the default payload from being planned
C6_Witness ==
    /\ pc = "done"
    /\ Len(self.variants) >= 1
    /\ \E i \in DOMAIN self.variants : CondValue(self.variants[i].condition) = "error"
    /\ TrueVariants = {}
    /\ CondValue(self.condition) = "false"
    /\ planned = <<>>

\* variants are declared, none matches, a true top-level condition lets the
\* default payload through
C6_WitnessDefault ==
    /\ pc = "done"
    /\ Len(self.variants) >= 1
    /\ TrueVariants = {}
    /\ CondValue(self.condition) = "true"
    /\ planned = <<0>>
    /\ ret = T_plan(self.action)

\* the four ways a call of plan can end
OutcomeVariant ==
    \E i \in DOMAIN self.variants :
        planned = <<i>> /\ ret = T_plan(self.variants[i].action)
OutcomeDefault == planned = <<0>> /\ ret = T_plan(self.action)
OutcomeEmpty == planned = <<>> /\ ret = Ok(<<>>)
OutcomeError == planned = <<>> /\ ret = ConditionError

Count(b) == IF b THEN 1 ELSE 0

(* C10: every call of plan ends in exactly one of four outcomes and invokes  *)
(* at most one payload's plan: the plan of one variant payload, the plan of  *)
(* the default payload, an empty step list with nothing planned, or the      *)
(* condition error with nothing planned.                                     *)
C10_ExactlyOneOutcome ==
    pc = "done" =>
        /\ Len(planned) <= 1
        /\ Count(OutcomeVariant) + Count(OutcomeDefault)
             + Count(OutcomeEmpty) + Count(OutcomeError) = 1

\* a variant is planned although the default payload stands ungated
C10_Witness ==
    /\ pc = "done"
    /\ is_none(self.condition)
    /\ OutcomeVariant
    /\ ~OutcomeDefault

----------------------------------------------------------------------------
(* The Actions union: deserialization by the `action` tag, and Display *)

Members == {"CommandRun", "DirectoryCopy", "DirectoryCreate", "FileCopy",
            "FileDownload", "FileLink", "FileRemove", "DirectoryRemove",
            "BinaryGitHub", "GroupAdd", "MacOSDefault", "PackageInstall",
            "PackageRepository", "UserAdd", "UserAddGroup"}

\* #[serde(rename = ..)]: the name a member is tagged with
rename(m) ==
    CASE m = "CommandRun" -> "command.run"
      [] m = "DirectoryCopy" -> "directory.copy"
      [] m = "DirectoryCreate" -> "directory.create"
      [] m = "FileCopy" -> "file.copy"
      [] m = "FileDownload" -> "file.download"
      [] m = "FileLink" -> "file.link"
      [] m = "FileRemove" -> "file.remove"
      [] m = "DirectoryRemove" -> "directory.remove"
      [] m = "BinaryGitHub" -> "binary.github"
      [] m = "GroupAdd" -> "group.add"
      [] m = "MacOSDefault" -> "macos.default"
      [] m = "PackageInstall" -> "package.install"
      [] m = "PackageRepository" -> "package.repository"
      [] m = "UserAdd" -> "user.add"
      [] m = "UserAddGroup" -> "user.group"

\* #[serde(alias = ..)]: the other tags a member is read from
alias(m) ==
    CASE m = "CommandRun" -> {"cmd.run"}
      [] m = "DirectoryCopy" -> {"dir.copy"}
      [] m = "DirectoryCreate" -> {"dir.create"}
      [] m = "DirectoryRemove" -> {"dir.remove"}
      [] m = "BinaryGitHub" -> {"binary.gh", "bin.github", "bin.gh"}
      [] m = "PackageInstall" -> {"package.installed"}
      [] m = "PackageRepository" -> {"package.repo"}
      [] OTHER -> {}

\* the tags a member is read from
Spellings(m) == {rename(m)} \cup alias(m)

\* the tags a manifest may carry: every accepted one, and one that is not
Tags == UNION {Spellings(m) : m \in Members} \cup {"package.remove"}

Declarations == [action : Tags, where : Option(Conditions)]

\* Deserialize for Actions (tag = "action"): the member whose rename or alias
\* the tag is, wrapping the ConditionalVariantAction read from the other
\* fields; an unknown tag is an error
deserialize(d) ==
    IF \E m \in Members : d.action \in Spellings(m)
    THEN [ok |-> TRUE,
          member |-> CHOOSE m \in Members : d.action \in Spellings(m),
          condition |-> d.where]
    ELSE [ok |-> FALSE, member |-> "", condition |-> None]

\* impl Display for Actions
fmt(m) ==
    CASE m = "CommandRun" -> "command.run"
      [] m = "DirectoryCopy" -> "directory.copy"
      [] m = "DirectoryCreate" -> "directory.create"
      [] m = "FileCopy" -> "file.copy"
      [] m = "FileDownload" -> "file.download"
      [] m = "FileLink" -> "file.link"
      [] m = "FileRemove" -> "file.remove"
      [] m = "DirectoryRemove" -> "directory.remove"
      [] m = "BinaryGitHub" -> "github.binary"
      [] m = "GroupAdd" -> "group.add"
      [] m = "MacOSDefault" -> "macos.default"
      [] m = "PackageInstall" -> "package.install"
      [] m = "PackageRepository" -> "package.repository"
      [] m = "UserAdd" -> "user.add"
      [] m = "UserAddGroup" -> "user.group"

InitActions ==
    /\ decl \in Declarations
    /\ parsed = None
    /\ shown = None
    /\ PlanIdle /\ CloneIdle /\ StepIdle

\* the manifest's declaration is deserialized
Deserialize ==
    /\ parsed = None
    /\ parsed' = Some(deserialize(decl))
    /\ UNCHANGED <<decl, shown, planVars, cloneVars, stepVars>>

\* the parsed action is formatted
Display ==
    /\ parsed # None
    /\ unwrap(parsed).ok
    /\ shown = None
    /\ shown' = Some(fmt(unwrap(parsed).member))
    /\ UNCHANGED <<decl, parsed, planVars, cloneVars, stepVars>>

NextActions == Deserialize \/ Display

SpecActions == InitActions /\ [][NextActions]_vars

(* C8: for every member of Actions, Display writes the member's canonical    *)
(* name (the primary `action` tag it is read from), whichever accepted       *)
(* spelling the declaration used.                                            *)
C8_DisplayIsCanonicalName ==
    shown # None =>
        /\ unwrap(shown) = rename(unwrap(parsed).member)
        /\ \A t \in Spellings(unwrap(parsed).member) :
              LET other == deserialize([decl EXCEPT !.action = t])
              IN other.ok /\ fmt(other.member) = unwrap(shown)

----------------------------------------------------------------------------
(* atoms::git::Clone *)

\* the paths of the atom's tests: a directory, and two names below it
Paths == {"temp_dir", "temp_dir/nonexistent", "temp_dir/clone"}

Clone == [repository : {"https://github.com/comtrya/comtrya"},
          directory : Paths,
          reference : Option({"main"})]

\* Path::exists
exists(path, disk) == path \in disk

\* Atom::plan for Clone with should_run fixed to true (a clone that always
\* synchronizes again)
Clone_plan_always_runs(a, disk) ==
    [side_effects |-> <<>>, should_run |-> TRUE]

\* Atom::plan for Clone: the Outcome it returns (it is always Ok)
Clone_plan(a, disk) ==
    [side_effects |-> <<>>, should_run |-> ~exists(a.directory, disk)]

\* GitSync::bootstrap on the atom's directory: it succeeds and leaves the
\* clone in the directory, or it fails, with or without having created it
bootstrap(a, disk) ==
    {[ok |-> TRUE, disk |-> disk \cup {a.directory}],
     [ok |-> FALSE, disk |-> disk],
     [ok |-> FALSE, disk |-> disk \cup {a.directory}]}

\* Atom::execute for Clone: the results bootstrap can have, the error mapped
\* to anyhow::Error
Clone_execute(a, disk) == bootstrap(a, disk)

InitClone ==
    /\ fs \in SUBSET Paths
    /\ atom \in Clone
    /\ trail = <<>>
    /\ PlanIdle /\ UnionIdle /\ StepIdle

\* a call of atom.plan()
ClonePlan ==
    /\ Len(trail) < MaxCalls
    /\ trail' = Append(trail, [op |-> "plan", before |-> fs, after |-> fs,
                               ok |-> TRUE, outcome |-> Some(Clone_plan(atom, fs))])
    /\ UNCHANGED <<fs, atom, planVars, unionVars, stepVars>>

\* a call of atom.execute()
CloneExecute ==
    /\ Len(trail) < MaxCalls
    /\ \E r \in Clone_execute(atom, fs) :
          /\ fs' = r.disk
          /\ trail' = Append(trail, [op |-> "execute", before |-> fs, after |-> r.disk,
                                     ok |-> r.ok, outcome |-> None])
    /\ UNCHANGED <<atom, planVars, unionVars, stepVars>>

NextClone == ClonePlan \/ CloneExecute

SpecClone == InitClone /\ [][NextClone]_vars

(* C7: plan of the Clone atom returns should_run = true exactly when the     *)
(* target directory does not exist, always with no side effects, and leaves  *)
(* the disk as it was, so that plan called again returns the same Outcome;   *)
(* after an execute that succeeded, a later plan of the same atom returns    *)
(* should_run = false.                                                       *)
C7_ClonePlanIsDirectoryCheck ==
    \A i \in DOMAIN trail :
        trail[i].op = "plan" =>
            /\ trail[i].ok
            /\ unwrap(trail[i].outcome).should_run = (atom.directory \notin trail[i].before)
            /\ unwrap(trail[i].outcome).side_effects = <<>>
            /\ trail[i].after = trail[i].before
            /\ (i > 1 /\ trail[i - 1].op = "plan") => trail[i].outcome = trail[i - 1].outcome
            /\ \A j \in 1..(i - 1) :
                  (trail[j].op = "execute" /\ trail[j].ok) =>
                      ~unwrap(trail[i].outcome).should_run

\* plan on a missing directory, a successful execute, plan again
C7_Witness ==
    /\ Len(trail) = 3
    /\ trail[1].op = "plan" /\ unwrap(trail[1].outcome).should_run
    /\ trail[2].op = "execute" /\ trail[2].ok
    /\ trail[3].op = "plan" /\ ~unwrap(trail[3].outcome).should_run

----------------------------------------------------------------------------
(* Execution of steps, atom by atom *)

\* an atom as the executor sees it: what its plan reports and whether its
\* execute fails
Atoms == [should_run : BOOLEAN, fails : BOOLEAN]

\* a step is an ordered, non-empty sequence of atoms, a run an ordered sequence
\* of steps: the runs of at most n atoms
RECURSIVE RunsOf(_)
RunsOf(n) ==
    {<<>>} \cup
    UNION {{<<step>> \o rest : step \in [1..k -> Atoms], rest \in RunsOf(n - k)} :
              k \in 1..n}

Steps == RunsOf(MaxAtoms) \ {<<>>}

\* the atom after <<si, ai>> in declared order, and the phase to take it in
advance(run, at) ==
    IF at[2] < Len(run[at[1]]) THEN [cursor |-> <<at[1], at[2] + 1>>, phase |-> "plan"]
    ELSE IF at[1] < Len(run) THEN [cursor |-> <<at[1] + 1, 1>>, phase |-> "plan"]
    ELSE [cursor |-> at, phase |-> "done"]

\* after plan: execute the atom if should_run, else go on to the next atom
after_plan(run, at, should_run) ==
    IF should_run THEN [cursor |-> at, phase |-> "execute"] ELSE advance(run, at)

\* after_execute that reports the failure and goes on with the next atom
after_execute_goes_on(run, at, failed) == advance(run, at)

\* after execute: a failure stops the step and the run
after_execute(run, at, failed) ==
    IF failed THEN [cursor |-> at, phase |-> "failed"] ELSE advance(run, at)

InitSteps ==
    /\ steps \in Steps
    /\ cursor = <<1, 1>>
    /\ phase = "plan"
    /\ calls = <<>>
    /\ PlanIdle /\ UnionIdle /\ CloneIdle

\* the executor calls plan on the atom it is at
ExecutorPlan ==
    /\ phase = "plan"
    /\ LET a == steps[cursor[1]][cursor[2]]
           n == after_plan(steps, cursor, a.should_run)
       IN /\ calls' = Append(calls, [op |-> "plan", at |-> cursor,
                                     should_run |-> a.should_run, ok |-> TRUE])
          /\ cursor' = n.cursor
          /\ phase' = n.phase
    /\ UNCHANGED <<steps, planVars, unionVars, cloneVars>>

\* the executor calls execute on the atom whose plan said should_run
ExecutorExecute ==
    /\ phase = "execute"
    /\ LET a == steps[cursor[1]][cursor[2]]
           n == after_execute(steps, cursor, a.fails)
       IN /\ calls' = Append(calls, [op |-> "execute", at |-> cursor,
                                     should_run |-> TRUE, ok |-> ~a.fails])
          /\ cursor' = n.cursor
          /\ phase' = n.phase
    /\ UNCHANGED <<steps, planVars, unionVars, cloneVars>>

NextSteps == ExecutorPlan \/ ExecutorExecute

SpecSteps == InitSteps /\ [][NextSteps]_vars

\* <<s, a>> comes before <<t, b>> in declared order
Before(p, q) == p[1] < q[1] \/ (p[1] = q[1] /\ p[2] < q[2])

\* the atoms of the run in declared order, as positions
Positions == {p \in (1..MaxAtoms) \X (1..MaxAtoms) :
                 p[1] \in DOMAIN steps /\ p[2] \in DOMAIN steps[p[1]]}

PlanCalls == {k \in DOMAIN calls : calls[k].op = "plan"}

(* C9: the atoms of a step are processed in declared order, execute is       *)
(* called on an atom only right after that atom's plan returned should_run = *)
(* true, and once an execute failed no atom receives another call.           *)
C9_StopOnFirstFailure ==
    /\ \A k \in PlanCalls :
          \* plan reaches the atoms in declared order, skipping none
          /\ \A l \in PlanCalls : k < l => Before(calls[k].at, calls[l].at)
          /\ \A p \in Positions :
                Before(p, calls[k].at) => \E l \in PlanCalls : l < k /\ calls[l].at = p
    /\ \A k \in DOMAIN calls :
          calls[k].op = "execute" =>
              /\ k > 1
              /\ calls[k - 1].op = "plan"
              /\ calls[k - 1].at = calls[k].at
              /\ calls[k - 1].should_run
    /\ \A k \in DOMAIN calls :
          (calls[k].op = "execute" /\ ~calls[k].ok) => k = Len(calls)
    /\ phase = "failed" =>
          /\ calls # <<>>
          /\ calls[Len(calls)].op = "execute" /\ ~calls[Len(calls)].ok
          /\ ~ENABLED NextSteps

\* the first atom's execute failed with atoms and steps still to come, and
\* the run stopped there
C9_Witness ==
    /\ phase = "failed"
    /\ Len(steps) >= 2
    /\ Len(steps[1]) >= 2
    /\ Len(calls) = 2
    /\ calls[2].op = "execute" /\ calls[2].at = <<1, 1>> /\ ~calls[2].ok

====
